---- MODULE Spec2Model ----
(***************************************************************************)
(* Model of apps/graphics/pdcurs34/pdcurses/pdc_initscr.c: the curses      *)
(* session lifecycle (Xinitscr, endwin, isendwin, delscreen, resize_term,  *)
(* is_termresized) over the globals SP, stdscr, curscr, pdc_lastscr,       *)
(* LINES, COLS and the pending ripped-off lines.                           *)
(*                                                                         *)
(* Pointers are small integers, 0 is NULL.  SCREEN structures live in the  *)
(* heap `screens', WINDOW structures in the heap `heap'.  Every public     *)
(* function is one action; `op', `ret' and `calls' record the last call,   *)
(* its return value and the collaborator calls it made, in order.          *)
(*                                                                         *)
(* The window engine (newwin, wresize, delwin), the platform driver        *)
(* (PDC_scr_open, PDC_resize_screen, the resized flag), the soft label     *)
(* keys (PDC_slk_initialize, PDC_slk_free), ripoffline and doupdate are    *)
(* not part of this file; they are modelled by what their callers here     *)
(* rely on.  An allocation fails when the heap has no structure left.      *)
(***************************************************************************)
EXTENDS Integers, Sequences, FiniteSets, TLC

(* ------------------------------ bounds -------------------------------- *)

MaxRows == 2        \* terminal heights 2..MaxRows (at 2 columns)
MaxRip  == 3        \* pending ripoffline registrations kept in the model
MaxWin  == 7        \* WINDOW structures the allocator can hand out
MaxScr  == 2        \* SCREEN structures the allocator can hand out
MaxSlk  == 1        \* rows of the soft-label-key strip (0 = disabled)

\* the sizes the terminal takes: the small ones, and 1x80, 24x1 and 24x80
Sizes == ((2..MaxRows) \X {2}) \cup {<<1, 80>>, <<24, 1>>, <<24, 80>>}

NULL == 0
WinIds == 1..MaxWin
ScrIds == 1..MaxScr

(* ------------------------------ state --------------------------------- *)

VARIABLES
  proc,         \* "running", "exited" (exit() was called) or "crashed"
  exitcode,     \* argument of exit(), 0 while running
  SP,           \* SCREEN *SP
  screens,      \* heap of SCREEN structures
  stdscr,       \* WINDOW *stdscr
  curscr,       \* WINDOW *curscr
  pdc_lastscr,  \* WINDOW *pdc_lastscr
  heap,         \* heap of WINDOW structures
  LINES,        \* int LINES
  COLS,         \* int COLS
  linesripped,  \* linesripped[0 .. linesrippedoff-1].line, in order
  slkcfg,       \* rows the soft-label-key strip is configured with
  term,         \* the size the platform terminal has
  op,           \* the last public function called
  ret,          \* what it returned
  calls         \* the collaborator calls it made, in order

vars == <<proc, exitcode, SP, screens, stdscr, curscr, pdc_lastscr, heap,
          LINES, COLS, linesripped, slkcfg, term, op, ret, calls>>

\* everything but the record of the last call
globals == <<proc, exitcode, SP, screens, stdscr, curscr, pdc_lastscr, heap,
             LINES, COLS, linesripped, slkcfg, term>>

(* ------------------------------ records ------------------------------- *)

\* a WINDOW: its geometry, _clear, and whether it is erased
NoWin == [used |-> FALSE, nlines |-> 0, ncols |-> 0, begy |-> 0, begx |-> 0,
          clear |-> FALSE, blank |-> FALSE]

\* a SCREEN, zeroed
NoScreen == [used |-> FALSE, alive |-> FALSE, lines |-> 0, cols |-> 0,
             linesrippedoffcnt |-> 0, linesrippedoffontop |-> 0,
             slklines |-> 0, slk_winptr |-> NULL, resized |-> FALSE,
             autocr |-> FALSE, raw_out |-> FALSE, raw_inp |-> FALSE,
             cbreak |-> FALSE, echo |-> FALSE, visibility |-> 0]

\* one collaborator call: its name, what it is for, the pointer it returned
\* or was given, and the geometry it was called with
Call(f, arg, w, nlines, ncols, begy) ==
  [f |-> f, arg |-> arg, w |-> w, nlines |-> nlines, ncols |-> ncols,
   begy |-> begy]

Note(f) == Call(f, "", NULL, 0, 0, 0)

SetMin(S) == CHOOSE x \in S : \A y \in S : x <= y

(* --------------------- window buffer engine --------------------------- *)

FreeWins(h) == {i \in WinIds : ~h[i].used}

\* WINDOW *newwin(nlines, ncols, begy, begx): the handle, or NULL when the
\* allocation fails because no structure is left
newwin(h) == IF FreeWins(h) # {} THEN SetMin(FreeWins(h)) ELSE NULL

\* the heap after newwin returned w
newwinHeap(h, w, nlines, ncols, begy, begx) ==
  IF w = NULL THEN h
  ELSE [h EXCEPT ![w] = [used |-> TRUE, nlines |-> nlines, ncols |-> ncols,
                         begy |-> begy, begx |-> begx,
                         clear |-> FALSE, blank |-> TRUE]]

\* int wresize(win, nlines, ncols) builds the resized window in a new
\* structure and moves it into win, which keeps its handle; ERR when no
\* structure is left
wresizeOK(h) == FreeWins(h) # {}

wresizeHeap(h, w, nlines, ncols) ==
  [h EXCEPT ![w].nlines = nlines, ![w].ncols = ncols]

\* int delwin(win): ERR for NULL, otherwise the structure is released
delwinHeap(h, w) == IF w = NULL THEN h ELSE [h EXCEPT ![w] = NoWin]

\* A structure no pointer of the program reaches any more (a window handed
\* to a ripped-off line's init function, the windows and the SCREEN of a
\* session that Xinitscr replaced) stays allocated; the model keeps no more
\* of it than that, and whether a SCREEN was alive.
LostWin == [NoWin EXCEPT !.used = TRUE]

Lost(h, w) == IF w = NULL THEN h ELSE [h EXCEPT ![w] = LostWin]

LostScreen(s) == [NoScreen EXCEPT !.used = TRUE, !.alive = s.alive]

(* ------------------- platform driver, soft label keys ----------------- *)

FreeScrs(s) == {i \in ScrIds : ~s[i].used}

\* PDC_scr_open allocates a zeroed SCREEN and stores the terminal's size
OpenedScreen(t) ==
  [NoScreen EXCEPT !.used = TRUE, !.lines = t[1], !.cols = t[2]]

\* PDC_slk_initialize: with soft label keys configured, set SP->slklines and
\* create the strip at the bottom of the current LINES unless it exists
PDC_slk_initialize(st) ==
  IF slkcfg = 0 THEN st
  ELSE IF st.sp.slk_winptr # NULL
       THEN [st EXCEPT !.sp.slklines = slkcfg]
       ELSE LET w == newwin(st.h)
            IN [st EXCEPT
                  !.sp.slklines = slkcfg,
                  !.sp.slk_winptr = w,
                  !.h = newwinHeap(st.h, w, slkcfg, st.C, st.L - slkcfg, 0),
                  !.calls = Append(@, Call("newwin", "slk", w, slkcfg, st.C,
                                           st.L - slkcfg))]

(* ------------------------- outcome of a call -------------------------- *)

\* the state as one record, so that a function's outcome is a record too
Cur == [proc |-> proc, exitcode |-> exitcode, SP |-> SP, screens |-> screens,
        stdscr |-> stdscr, curscr |-> curscr, pdc_lastscr |-> pdc_lastscr,
        heap |-> heap, LINES |-> LINES, COLS |-> COLS,
        linesripped |-> linesripped, term |-> term,
        ret |-> ret, calls |-> calls]

Commit(o) ==
  /\ proc' = o.proc
  /\ exitcode' = o.exitcode
  /\ SP' = o.SP
  /\ screens' = o.screens
  /\ stdscr' = o.stdscr
  /\ curscr' = o.curscr
  /\ pdc_lastscr' = o.pdc_lastscr
  /\ heap' = o.heap
  /\ LINES' = o.LINES
  /\ COLS' = o.COLS
  /\ linesripped' = o.linesripped
  /\ term' = o.term
  /\ ret' = o.ret
  /\ calls' = o.calls
  /\ UNCHANGED slkcfg

\* exit(code): the process ends where it stands
Exit(o, code) == [o EXCEPT !.proc = "exited", !.exitcode = code,
                           !.ret = "none"]

\* a NULL pointer is dereferenced: the process faults where it stands
Crash(o) == [o EXCEPT !.proc = "crashed", !.ret = "none"]

(* ----------------------------- Xinitscr ------------------------------- *)

\* if (SP && SP->alive)
\* variant: the test on SP->alive inverted
AlreadyAlive_Inverted(sp, scr) == sp # NULL /\ ~scr[sp].alive

AlreadyAlive(sp, scr) == sp # NULL /\ scr[sp].alive

\* SP->autocr = true ... SP->orig_cursor = PDC_get_cursor_mode()
DefaultModes(s) ==
  [s EXCEPT !.autocr = TRUE, !.raw_out = FALSE, !.raw_inp = FALSE,
            !.cbreak = TRUE, !.echo = TRUE, !.visibility = 1,
            !.resized = FALSE, !.linesrippedoffcnt = 0,
            !.linesrippedoffontop = 0]

\* variant: only an empty terminal is refused
TooSmall_BelowOne(l, c) == l < 1 \/ c < 1

\* if (LINES < 2 || COLS < 2)
TooSmall(l, c) == l < 2 \/ c < 2

\* variant: the failure is returned to the caller instead of exit()
NoBuffer_ReturnsNull(o, what) == [o EXCEPT !.ret = "NULL"]

\* newwin returned NULL for curscr, pdc_lastscr or stdscr: exit(2), exit(2),
\* exit(1)
NoBuffer(o, what) == Exit(o, IF what = "stdscr" THEN 1 ELSE 2)

\* the row a ripped-off line's window is created at
RipRow(line, L, ontop) == IF line < 0 THEN L - 1 ELSE ontop

\* one round of the loop over linesripped[i]: the window is created, handed
\* to the line's init function, and counted
RipStep(st, line) ==
  LET y    == RipRow(line, st.L, st.sp.linesrippedoffontop)
      w    == newwin(st.h)
      side == IF line < 0 THEN "bottom" ELSE "top"
  IN [st EXCEPT
        !.h = Lost(newwinHeap(st.h, w, 1, st.C, y, 0), w),
        !.sp.linesrippedoffontop = IF line < 0 THEN @ ELSE @ + 1,
        !.sp.linesrippedoffcnt = @ + 1,
        !.L = @ - 1,
        !.calls = Append(Append(@, Call("newwin", "ripped", w, 1, st.C, y)),
                         Call("init", side, w, 1, st.C, y))]

RECURSIVE RipLoop(_, _)
RipLoop(st, i) ==
  IF i > Len(linesripped) THEN st
  ELSE RipLoop(RipStep(st, linesripped[i]), i + 1)

\* Xinitscr past the SP->alive test.  okOpen: the driver can open the
\* terminal; preserve: SP->_preserve as the driver set it.
XinitscrBody(okOpen, preserve) ==
  IF ~okOpen \/ FreeScrs(screens) = {}
  THEN [Cur EXCEPT !.calls = <<Note("PDC_scr_open")>>, !.ret = "NULL"]
  ELSE
  LET p   == SetMin(FreeScrs(screens))
      sp1 == DefaultModes(OpenedScreen(term))
      L0  == sp1.lines
      C0  == sp1.cols
      old == IF SP = NULL THEN screens
             ELSE [screens EXCEPT ![SP] = LostScreen(@)]
      h0  == IF SP = NULL THEN heap ELSE Lost(heap, screens[SP].slk_winptr)
      o1  == [Cur EXCEPT !.SP = p, !.screens = [old EXCEPT ![p] = sp1],
                         !.heap = h0, !.LINES = L0, !.COLS = C0,
                         !.calls = <<Call("PDC_scr_open", "", p, L0, C0, 0)>>]
  IN
  IF TooSmall(L0, C0) THEN Exit(o1, 4)
  ELSE
  LET cur == newwin(h0)
      h1  == newwinHeap(Lost(h0, curscr), cur, L0, C0, 0, 0)
      o2  == [o1 EXCEPT !.curscr = cur, !.heap = h1,
                        !.calls = Append(@, Call("newwin", "curscr", cur,
                                                 L0, C0, 0))]
  IN
  IF cur = NULL THEN NoBuffer(o2, "curscr")
  ELSE
  LET last == newwin(h1)
      h2   == newwinHeap(Lost(h1, pdc_lastscr), last, L0, C0, 0, 0)
      o3   == [o2 EXCEPT !.pdc_lastscr = last, !.heap = h2,
                         !.calls = Append(@, Call("newwin", "pdc_lastscr",
                                                  last, L0, C0, 0))]
  IN
  IF last = NULL THEN NoBuffer(o3, "pdc_lastscr")
  ELSE
  LET st0 == [sp |-> sp1, h |-> h2, L |-> L0, C |-> C0, calls |-> o3.calls]
      st1 == PDC_slk_initialize(st0)
      st2 == [st1 EXCEPT !.L = @ - st1.sp.slklines]
      st3 == RipLoop(st2, 1)
      top == st3.sp.linesrippedoffontop
      std == newwin(st3.h)
      h4  == newwinHeap(Lost(st3.h, stdscr), std, st3.L, C0, top, 0)
      o4  == [o3 EXCEPT !.screens[p] = st3.sp, !.heap = h4, !.LINES = st3.L,
                        !.linesripped = <<>>, !.stdscr = std,
                        !.calls = Append(st3.calls,
                                         Call("newwin", "stdscr", std,
                                              st3.L, C0, top))]
  IN
  IF std = NULL THEN NoBuffer(o4, "stdscr")
  ELSE
  [o4 EXCEPT !.heap[cur].clear = ~preserve,
             !.heap[std].clear = IF preserve THEN FALSE ELSE @,
             !.screens[p].alive = TRUE,
             !.ret = "WIN"]

Xinitscr ==
  /\ proc = "running"
  /\ op' = "Xinitscr"
  /\ IF AlreadyAlive(SP, screens)
     THEN Commit([Cur EXCEPT !.ret = "NULL", !.calls = <<>>])
     ELSE \E okOpen \in BOOLEAN, preserve \in BOOLEAN :
            /\ okOpen \/ ~preserve
            /\ Commit(XinitscrBody(okOpen, preserve))

(* ------------------------ endwin and isendwin ------------------------- *)

\* variant: endwin also gives up the usable size
endwin_ResetsGeometry ==
  /\ proc = "running"
  /\ SP # NULL
  /\ op' = "endwin"
  /\ Commit([Cur EXCEPT !.screens[SP].alive = FALSE, !.LINES = 0, !.COLS = 0,
                        !.calls = <<Note("def_prog_mode"),
                                    Note("PDC_scr_close")>>,
                        !.ret = "OK"])

\* endwin: def_prog_mode(), PDC_scr_close(), SP->alive = false.  With SP
\* NULL the store goes through a NULL pointer: the process faults, or the
\* store lands nowhere the program reads and endwin returns OK.
endwin ==
  /\ proc = "running"
  /\ op' = "endwin"
  /\ LET o == [Cur EXCEPT !.calls = <<Note("def_prog_mode"),
                                      Note("PDC_scr_close")>>]
     IN IF SP = NULL
        THEN \E fault \in BOOLEAN :
               Commit(IF fault THEN Crash(o) ELSE [o EXCEPT !.ret = "OK"])
        ELSE Commit([o EXCEPT !.screens[SP].alive = FALSE, !.ret = "OK"])

\* variant: without a session the answer is true
isendwinValue_TrueWithoutSession(sp, scr) ==
  IF sp # NULL THEN ~scr[sp].alive ELSE TRUE

\* return SP ? !(SP->alive) : false
isendwinValue(sp, scr) == IF sp # NULL THEN ~scr[sp].alive ELSE FALSE

isendwin ==
  /\ proc = "running"
  /\ op' = "isendwin"
  /\ Commit([Cur EXCEPT !.calls = <<>>,
                        !.ret = IF isendwinValue(SP, screens) THEN "TRUE"
                                ELSE "FALSE"])

(* ----------------------------- delscreen ------------------------------ *)

\* PDC_slk_free: the strip's window is deleted
PDC_slk_free(o) ==
  IF o.SP = NULL THEN [o EXCEPT !.calls = Append(@, Note("PDC_slk_free"))]
  ELSE LET w == o.screens[o.SP].slk_winptr
       IN [o EXCEPT !.heap = delwinHeap(@, w),
                    !.screens[o.SP].slk_winptr = NULL,
                    !.calls = Append(@, Call("PDC_slk_free", "slk", w,
                                             0, 0, 0))]

\* delwin(win), logged; nlines = -1 marks a window that is not allocated
\* when it is deleted
DelWin(o, what, w) ==
  [o EXCEPT !.heap = delwinHeap(@, w),
            !.calls = Append(@, Call("delwin", what, w,
                                     IF w # NULL /\ ~o.heap[w].used
                                     THEN -1 ELSE 0, 0, 0))]

\* if (sp != SP) return
NotCurrentScreen(sp, cur) == sp # cur

\* variant: the windows are deleted before the soft label keys are freed,
\* curscr first
delscreenWindows_OtherOrder(o0) ==
  LET o1 == DelWin(o0, "curscr", o0.curscr)
      o2 == DelWin(o1, "stdscr", o1.stdscr)
      o3 == DelWin(o2, "pdc_lastscr", o2.pdc_lastscr)
      o4 == PDC_slk_free(o3)
  IN [o4 EXCEPT !.stdscr = NULL, !.curscr = NULL, !.pdc_lastscr = NULL,
                !.calls = Append(@, Note("handles = NULL"))]

\* delscreen past the sp != SP test, up to SP->alive = false
delscreenWindows(o0) ==
  LET o1 == PDC_slk_free(o0)
      o2 == DelWin(o1, "stdscr", o1.stdscr)
      o3 == DelWin(o2, "curscr", o2.curscr)
      o4 == DelWin(o3, "pdc_lastscr", o3.pdc_lastscr)
  IN [o4 EXCEPT !.stdscr = NULL, !.curscr = NULL, !.pdc_lastscr = NULL,
                !.calls = Append(@, Note("handles = NULL"))]

\* variant: the SCREEN is neither released nor is SP set to NULL
delscreenScreen_KeepsSP(o0) == [o0 EXCEPT !.ret = "void"]

\* SP->alive = false; PDC_scr_free(); SP = NULL
delscreenScreen(o0) ==
  LET o1 == [o0 EXCEPT !.screens[o0.SP].alive = FALSE,
                       !.calls = Append(@, Note("alive = false"))]
      o2 == [o1 EXCEPT !.screens[o1.SP] = NoScreen,
                       !.calls = Append(@, Note("PDC_scr_free"))]
  IN [o2 EXCEPT !.SP = NULL, !.ret = "void"]

\* delscreen(sp).  With sp == SP == NULL the function goes on to
\* SP->alive = false through a NULL pointer: the process faults, or the
\* store lands nowhere the program reads and delscreen returns.
delscreen ==
  /\ proc = "running"
  /\ op' = "delscreen"
  /\ \E sp \in {NULL} \cup ScrIds :
       LET o0 == [Cur EXCEPT !.calls = <<>>, !.ret = "void"]
       IN IF NotCurrentScreen(sp, SP) THEN Commit(o0)
          ELSE IF SP = NULL
          THEN \E fault \in BOOLEAN :
                 Commit(IF fault THEN Crash(delscreenWindows(o0))
                        ELSE [delscreenWindows(o0) EXCEPT
                                !.calls = Append(@, Note("PDC_scr_free"))])
          ELSE Commit(delscreenScreen(delscreenWindows(o0)))

(* ---------------------------- resize_term ----------------------------- *)

\* PDC_resize_screen(nlines, ncols): with (0, 0) the driver keeps the size
\* the terminal has; otherwise it fails, or resizes the terminal
PDC_resize_screen(t, nlines, ncols, ok) ==
  IF nlines = 0 /\ ncols = 0 THEN [ok |-> TRUE, term |-> t]
  ELSE IF ~ok THEN [ok |-> FALSE, term |-> t]
  ELSE [ok |-> TRUE, term |-> <<nlines, ncols>>]

\* the driver clears SP->resized for a resize that succeeded
ResizeDone(s) == [s EXCEPT !.resized = FALSE]

\* variant: resize_term without the test on stdscr
NoStdscr_Unchecked(std) == FALSE

\* if (!stdscr ...
NoStdscr(std) == std = NULL

\* variant: the slk rows are not taken off LINES
ResizedLINES_IgnoresSlk(lines, cnt, slk) == lines - cnt

\* LINES = SP->lines - SP->linesrippedoffcnt - SP->slklines
ResizedLINES(lines, cnt, slk) == lines - cnt - slk

\* wresize(win, nlines, ncols) inside resize_term, logged
WResize(o, what, w, nlines, ncols) ==
  [o EXCEPT !.heap = wresizeHeap(@, w, nlines, ncols),
            !.calls = Append(@, Call("wresize", what, w, nlines, ncols, 0))]

WResizeFailed(o, what, w, nlines, ncols) ==
  [o EXCEPT !.calls = Append(@, Call("wresize", what, NULL, nlines, ncols,
                                     0)),
            !.ret = "ERR"]

\* variant: curscr is not marked for a full clear
ForceRedraw_EraseOnly(o) == [o EXCEPT !.heap[o.pdc_lastscr].blank = TRUE]

\* werase(pdc_lastscr); curscr->_clear = true
ForceRedraw(o) ==
  [o EXCEPT !.heap[o.pdc_lastscr].blank = TRUE,
            !.heap[o.curscr].clear = TRUE]

\* resize_term past PDC_resize_screen() == OK
resize_termBody(o0) ==
  LET p   == o0.SP
      s0  == o0.screens[p]
      nl  == o0.term[1]
      nc  == o0.term[2]
      L   == ResizedLINES(nl, s0.linesrippedoffcnt, s0.slklines)
      o1  == [o0 EXCEPT !.screens[p].lines = nl, !.screens[p].cols = nc,
                        !.LINES = L, !.COLS = nc]
      slk == s0.slk_winptr
  IN
  IF ~wresizeOK(o1.heap) THEN WResizeFailed(o1, "curscr", o1.curscr, nl, nc)
  ELSE
  LET o2 == WResize(o1, "curscr", o1.curscr, nl, nc) IN
  IF ~wresizeOK(o2.heap) THEN WResizeFailed(o2, "stdscr", o2.stdscr, L, nc)
  ELSE
  LET o3 == WResize(o2, "stdscr", o2.stdscr, L, nc) IN
  IF ~wresizeOK(o3.heap)
  THEN WResizeFailed(o3, "pdc_lastscr", o3.pdc_lastscr, nl, nc)
  ELSE
  LET o4 == WResize(o3, "pdc_lastscr", o3.pdc_lastscr, nl, nc)
      o5 == ForceRedraw(o4)
  IN
  IF slk # NULL /\ ~wresizeOK(o5.heap)
  THEN WResizeFailed(o5, "slk", slk, s0.slklines, nc)
  ELSE
  LET o6 == IF slk = NULL THEN o5
            ELSE [WResize(o5, "slk", slk, s0.slklines, nc) EXCEPT
                    !.screens[p].slklines = slkcfg]
  IN [o6 EXCEPT !.screens[p] = ResizeDone(@), !.ret = "OK"]

resize_term ==
  /\ proc = "running"
  /\ op' = "resize_term"
  /\ \E req \in {<<0, 0>>} \cup Sizes, ok \in BOOLEAN :
       LET o0 == [Cur EXCEPT !.calls = <<>>]
           r  == PDC_resize_screen(term, req[1], req[2], ok)
           o1 == [o0 EXCEPT !.calls = <<Call("PDC_resize_screen", "", NULL,
                                             req[1], req[2], 0)>>,
                            !.term = r.term]
       IN IF NoStdscr(stdscr) THEN Commit([o0 EXCEPT !.ret = "ERR"])
          ELSE IF ~r.ok THEN Commit([o1 EXCEPT !.ret = "ERR"])
          ELSE IF SP = NULL THEN Commit(Crash(o1))
          ELSE Commit(resize_termBody(o1))

\* is_termresized: return SP->resized.  With SP NULL the load goes through
\* a NULL pointer: the process faults, or the load yields whatever is there.
is_termresized ==
  /\ proc = "running"
  /\ op' = "is_termresized"
  /\ LET o == [Cur EXCEPT !.calls = <<>>]
     IN IF SP = NULL
        THEN \E fault \in BOOLEAN, v \in {"TRUE", "FALSE"} :
               Commit(IF fault THEN Crash(o) ELSE [o EXCEPT !.ret = v])
        ELSE Commit([o EXCEPT !.ret = IF screens[SP].resized THEN "TRUE"
                                      ELSE "FALSE"])

(* ----------------------- callers and platform ------------------------- *)

\* ripoffline(line, init), called before initscr: one more entry of
\* linesripped[]
ripoffline ==
  /\ proc = "running"
  /\ SP = NULL
  /\ op' = "ripoffline"
  /\ \E line \in {-1, 1} :
       IF Len(linesripped) < MaxRip
       THEN Commit([Cur EXCEPT !.linesripped = Append(@, line),
                               !.calls = <<>>, !.ret = "OK"])
       ELSE Commit([Cur EXCEPT !.calls = <<>>, !.ret = "ERR"])

\* doupdate (refresh): after endwin it makes the session alive again; it
\* draws the frame, so curscr is no longer marked for a clear and
\* pdc_lastscr holds the frame
doupdate ==
  /\ proc = "running"
  /\ SP # NULL /\ curscr # NULL /\ pdc_lastscr # NULL
  /\ op' = "doupdate"
  /\ Commit([Cur EXCEPT !.screens[SP].alive = TRUE,
                        !.heap[curscr].clear = FALSE,
                        !.heap[pdc_lastscr].blank = FALSE,
                        !.calls = <<>>, !.ret = "OK"])

\* the user resizes the terminal: the driver sets SP->resized
user_resize ==
  /\ proc = "running"
  /\ SP # NULL
  /\ op' = "user_resize"
  /\ \E t \in Sizes :
       /\ t # term
       /\ Commit([Cur EXCEPT !.term = t, !.screens[SP].resized = TRUE,
                             !.calls = <<>>, !.ret = "none"])

(* --------------------------- specification ---------------------------- *)

Init ==
  /\ proc = "running"
  /\ exitcode = 0
  /\ SP = NULL
  /\ screens = [i \in ScrIds |-> NoScreen]
  /\ stdscr = NULL
  /\ curscr = NULL
  /\ pdc_lastscr = NULL
  /\ heap = [i \in WinIds |-> NoWin]
  /\ LINES = 0
  /\ COLS = 0
  /\ linesripped = <<>>
  /\ slkcfg \in 0..MaxSlk
  /\ term \in Sizes
  /\ op = "none"
  /\ ret = "none"
  /\ calls = <<>>

Next ==
  \/ Xinitscr
  \/ endwin
  \/ isendwin
  \/ delscreen
  \/ resize_term
  \/ is_termresized
  \/ ripoffline
  \/ doupdate
  \/ user_resize

Spec == Init /\ [][Next]_vars

(* ------------------------------ claims -------------------------------- *)

CreateOK == op = "Xinitscr" /\ ret = "WIN"
ResizeOK == op = "resize_term" /\ ret = "OK"

TopCount == screens[SP].linesrippedoffontop
BottomCount == screens[SP].linesrippedoffcnt - screens[SP].linesrippedoffontop

\* C1: after every successful Xinitscr and every successful resize_term the
\* terminal's rows are the usable rows plus the top and bottom ripped-off
\* lines plus the slk rows: SP->lines = LINES + top + bottom + SP->slklines,
\* with neither count negative.
C1_LayoutInvariant ==
  (CreateOK \/ ResizeOK) =>
     /\ screens[SP].lines = LINES + TopCount + BottomCount
                              + screens[SP].slklines
     /\ TopCount >= 0 /\ BottomCount >= 0

\* a resize to 24 rows succeeded in a session with ripped-off lines at the
\* top and at the bottom and an slk strip
C1_Witness ==
  /\ ResizeOK
  /\ TopCount >= 1 /\ BottomCount >= 1 /\ screens[SP].slklines >= 1
  /\ screens[SP].lines = 24

AliveScreens == {i \in ScrIds : screens[i].used /\ screens[i].alive}

\* C2: at most one SCREEN is alive at any time, and Xinitscr called while SP
\* is alive returns NULL, calls no collaborator (the terminal is not opened,
\* no window is created) and leaves every global as it was.
C2_SecondCreateIsNoOp ==
  /\ [](Cardinality(AliveScreens) <= 1)
  /\ [][(SP # NULL /\ screens[SP].alive /\ op' = "Xinitscr")
          => (ret' = "NULL" /\ calls' = <<>> /\ UNCHANGED globals)]_vars

\* Xinitscr has just been refused in an alive session that has windows
C2_Witness ==
  /\ op = "Xinitscr" /\ ret = "NULL" /\ calls = <<>>
  /\ SP # NULL /\ screens[SP].alive /\ stdscr # NULL

IsTop(c) == c.f = "init" /\ c.arg = "top"
IsBottom(c) == c.f = "init" /\ c.arg = "bottom"
Tops == SelectSeq(calls, IsTop)
Bottoms == SelectSeq(calls, IsBottom)

\* C3: after a successful Xinitscr with slk disabled, the k-th top
\* registration has row k-1, the k-th bottom registration has row
\* SP->lines - k (they stack upward from the last row), and stdscr occupies
\* exactly the rows in between.
C3_ReservedLinePlacement ==
  (CreateOK /\ screens[SP].slklines = 0) =>
     /\ \A k \in 1..Len(Tops) : Tops[k].begy = k - 1
     /\ \A k \in 1..Len(Bottoms) : Bottoms[k].begy = screens[SP].lines - k
     /\ calls[Len(calls)].arg = "stdscr"
     /\ calls[Len(calls)].begy = Len(Tops)
     /\ calls[Len(calls)].nlines
          = screens[SP].lines - Len(Tops) - Len(Bottoms)

\* the windows Xinitscr created that take rows of the terminal for
\* themselves: ripped-off lines, the slk strip and stdscr
Regions ==
  {i \in 1..Len(calls) :
     /\ calls[i].f = "newwin" /\ calls[i].w # NULL
     /\ calls[i].arg \in {"ripped", "slk", "stdscr"}}

RowsOf(c) == c.begy .. (c.begy + c.nlines - 1)

\* C4: after a successful Xinitscr the rows of the ripped-off-line windows,
\* of the slk strip and of stdscr are pairwise disjoint and all inside
\* 0 .. SP->lines - 1.
C4_RegionsDisjoint ==
  CreateOK =>
     /\ \A i \in Regions : RowsOf(calls[i]) \subseteq 0..(screens[SP].lines - 1)
     /\ \A i, j \in Regions :
          i # j => RowsOf(calls[i]) \cap RowsOf(calls[j]) = {}

\* Xinitscr's PDC_scr_open succeeded on a terminal with fewer than 2 rows
\* or columns
CreateOnSmallTerminal ==
  /\ op = "Xinitscr" /\ calls # <<>>
  /\ calls[1].f = "PDC_scr_open" /\ calls[1].w # NULL
  /\ (calls[1].nlines < 2 \/ calls[1].ncols < 2)

NoWindowAllocated == \A w \in WinIds : ~heap[w].used

\* C5 as claimed: Xinitscr on a terminal below 2 rows or columns returns the
\* failure to its caller and leaves no session behind: the process runs on,
\* SP is NULL and no window exists.
C5_SmallTerminalReturnsError ==
  CreateOnSmallTerminal =>
     /\ proc = "running" /\ ret = "NULL"
     /\ SP = NULL
     /\ stdscr = NULL /\ curscr = NULL /\ pdc_lastscr = NULL

\* C5 as the code has it: Xinitscr on a terminal below 2 rows or columns
\* ends the process with exit(4); after PDC_scr_open it has called nothing
\* (no window is created) and has not set alive, and the SCREEN the driver
\* allocated is still what SP points to.
C5_SmallTerminalExits ==
  CreateOnSmallTerminal =>
     /\ proc = "exited" /\ exitcode = 4
     /\ Len(calls) = 1
     /\ SP = calls[1].w /\ screens[SP].used /\ ~screens[SP].alive

\* the first Xinitscr of the process, on the 1x80 terminal, has ended it
C5_Witness ==
  /\ CreateOnSmallTerminal /\ term = <<1, 80>>
  /\ proc = "exited" /\ NoWindowAllocated

\* C6: after every successful Xinitscr and resize_term the terminal and the
\* usable area have at least 2 rows and 2 columns.
C6_AtLeastTwoByTwo ==
  (CreateOK \/ ResizeOK) =>
     /\ screens[SP].lines >= 2 /\ screens[SP].cols >= 2
     /\ LINES >= 2 /\ COLS >= 2

\* Xinitscr could not create curscr, pdc_lastscr or stdscr
FailedBuffers ==
  {i \in 1..Len(calls) :
     /\ calls[i].f = "newwin" /\ calls[i].w = NULL
     /\ calls[i].arg \in {"curscr", "pdc_lastscr", "stdscr"}}

CreatedWindows ==
  {calls[i].w : i \in {j \in 1..Len(calls) :
                         calls[j].f = "newwin" /\ calls[j].w # NULL}}

\* C7 as claimed: when curscr, pdc_lastscr or stdscr cannot be created,
\* Xinitscr returns the failure, has released every window it created and
\* leaves no session behind, so that Xinitscr can be called again.
C7_BufferFailureRollsBack ==
  (op = "Xinitscr" /\ FailedBuffers # {}) =>
     /\ proc = "running" /\ ret = "NULL"
     /\ SP = NULL
     /\ stdscr = NULL /\ curscr = NULL /\ pdc_lastscr = NULL
     /\ \A w \in CreatedWindows : ~heap[w].used

\* C7 as the code has it: when curscr or pdc_lastscr cannot be created
\* Xinitscr ends the process with exit(2), when stdscr cannot, with exit(1);
\* nothing is released: every window it created is still allocated and SP
\* still points to the SCREEN of the attempt, which is not alive.
C7_BufferFailureExits ==
  (op = "Xinitscr" /\ FailedBuffers # {}) =>
     /\ proc = "exited"
     /\ exitcode = (IF calls[Len(calls)].arg = "stdscr" THEN 1 ELSE 2)
     /\ Len(calls) \in FailedBuffers
     /\ SP # NULL /\ screens[SP].used /\ ~screens[SP].alive
     /\ \A w \in CreatedWindows : heap[w].used

\* stdscr could not be created: the process has ended with curscr and
\* pdc_lastscr of the attempt still allocated
C7_Witness ==
  /\ op = "Xinitscr" /\ proc = "exited" /\ exitcode = 1
  /\ curscr # NULL /\ heap[curscr].used
  /\ pdc_lastscr # NULL /\ heap[pdc_lastscr].used
  /\ stdscr = NULL

\* C8 as claimed: resize_term called when no session is alive (none exists,
\* or endwin was called) returns ERR, does not call PDC_resize_screen and
\* changes no global.
C8_ResizeOnlyWhenAlive ==
  [][((SP = NULL \/ ~screens[SP].alive) /\ op' = "resize_term")
       => (ret' = "ERR" /\ calls' = <<>> /\ UNCHANGED globals)]_vars

\* C8 as the code has it: the test is on stdscr.  While the process runs,
\* stdscr is NULL exactly when no session exists; resize_term then returns
\* ERR, does not call PDC_resize_screen and changes no global.  With a
\* session, alive or after endwin, it calls PDC_resize_screen first.
C8_ResizeOnlyWithStdscr ==
  /\ [](proc = "running" => ((stdscr = NULL) <=> (SP = NULL)))
  /\ [][op' = "resize_term" =>
          IF stdscr = NULL
          THEN ret' = "ERR" /\ calls' = <<>> /\ UNCHANGED globals
          ELSE calls' # <<>> /\ calls'[1].f = "PDC_resize_screen"]_vars

\* resize_term has succeeded, and resized the windows, after endwin
C8_Witness ==
  /\ ResizeOK /\ SP # NULL /\ ~screens[SP].alive
  /\ heap[stdscr].nlines = LINES /\ Len(calls) >= 4

\* C9: after every successful resize_term SP->lines and SP->cols are the
\* size the driver reports, LINES = SP->lines - top - bottom - SP->slklines,
\* COLS = SP->cols, pdc_lastscr is erased and curscr is marked for a full
\* clear; the resize changes neither the ripped-off counts nor the slk
\* rows.
C9_ResizeResult ==
  /\ [](ResizeOK =>
          /\ screens[SP].lines = term[1] /\ screens[SP].cols = term[2]
          /\ LINES = screens[SP].lines - TopCount - BottomCount
                       - screens[SP].slklines
          /\ COLS = screens[SP].cols
          /\ heap[pdc_lastscr].blank /\ heap[curscr].clear)
  /\ [][(op' = "resize_term" /\ ret' = "OK") =>
          /\ SP' = SP
          /\ screens'[SP].linesrippedoffcnt = screens[SP].linesrippedoffcnt
          /\ screens'[SP].linesrippedoffontop
               = screens[SP].linesrippedoffontop
          /\ screens'[SP].slklines = screens[SP].slklines]_vars

\* resize_term(0, 0) has succeeded in a session with ripped-off lines and
\* an slk strip, on a terminal whose height is no longer the one the strip
\* was placed for
C9_Witness ==
  /\ ResizeOK /\ calls[1].nlines = 0 /\ calls[1].ncols = 0
  /\ screens[SP].linesrippedoffcnt >= 1
  /\ screens[SP].slk_winptr # NULL
  /\ heap[screens[SP].slk_winptr].begy + screens[SP].slklines
       + BottomCount # screens[SP].lines

Pending == SP # NULL /\ screens[SP].resized

\* C10: once SP->resized is set it stays set until a resize_term succeeds;
\* a successful resize_term clears it; is_termresized returns it and
\* changes nothing.
C10_ResizedPending ==
  [][/\ (Pending /\ ~(op' = "resize_term" /\ ret' = "OK"))
          => (SP' # NULL /\ screens'[SP'].resized)
     /\ (op' = "resize_term" /\ ret' = "OK") => ~screens'[SP'].resized
     /\ op' = "is_termresized" =>
          /\ UNCHANGED globals
          /\ Pending => ret' = "TRUE"]_vars

WindowHandles == <<stdscr, curscr, pdc_lastscr>>

\* C11: endwin in an alive session sets SP->alive = false and changes
\* nothing else: SP, every other field of the SCREEN, stdscr, curscr,
\* pdc_lastscr and the windows themselves, LINES and COLS are as before.
\* The refresh that resumes the session sets SP->alive = true and leaves SP,
\* the three handles, the geometry of the windows, LINES and COLS alone.
C11_SuspendResumeFrame ==
  /\ [][(op' = "endwin" /\ SP # NULL /\ screens[SP].alive) =>
          /\ proc' = "running" /\ ret' = "OK"
          /\ screens' = [screens EXCEPT ![SP].alive = FALSE]
          /\ UNCHANGED <<SP, WindowHandles, heap, LINES, COLS, linesripped,
                         term>>]_vars
  /\ [][(op' = "doupdate" /\ ~screens[SP].alive) =>
          /\ screens' = [screens EXCEPT ![SP].alive = TRUE]
          /\ UNCHANGED <<SP, WindowHandles, LINES, COLS>>
          /\ \A w \in {stdscr, curscr, pdc_lastscr} :
               /\ heap'[w].used
               /\ heap'[w].nlines = heap[w].nlines
               /\ heap'[w].ncols = heap[w].ncols
               /\ heap'[w].begy = heap[w].begy]_vars

\* endwin has suspended a session that has ripped-off lines, and its
\* windows are still there
C11_Witness ==
  /\ op = "endwin" /\ ret = "OK"
  /\ SP # NULL /\ ~screens[SP].alive
  /\ screens[SP].linesrippedoffcnt >= 1
  /\ heap[stdscr].used /\ heap[stdscr].nlines = LINES
  /\ heap[curscr].used /\ heap[pdc_lastscr].used

\* C12: delscreen called when no session exists (SP is NULL, before any
\* Xinitscr or after a delscreen) is a no-op: the globals are as before,
\* and the process runs on.
C12_DestroyIdempotent ==
  [][(op' = "delscreen" /\ SP = NULL) => UNCHANGED globals]_vars

\* delscreen has just returned, past its sp != SP test
DestroyDone == op = "delscreen" /\ proc = "running" /\ calls # <<>>

UsedScreens == {i \in ScrIds : screens[i].used}
UsedWindows == {w \in WinIds : heap[w].used}
LostWindows == {w \in WinIds : heap[w] = LostWin}

\* C13: after delscreen no session exists, and an Xinitscr called with no
\* session (the first one, or one after any number of Xinitscr/delscreen
\* rounds, with or without endwin before the delscreen) opens the terminal
\* and, when the driver opens it with at least 2x2 and curscr, pdc_lastscr
\* and stdscr can be allocated, succeeds: SP is a SCREEN that is alive and
\* satisfies the layout invariant, with three windows of its own that were
\* not allocated before the call.
C13_SessionReuse ==
  /\ [](DestroyDone =>
          /\ SP = NULL
          /\ stdscr = NULL /\ curscr = NULL /\ pdc_lastscr = NULL)
  /\ [][(SP = NULL /\ op' = "Xinitscr") =>
          /\ calls' # <<>> /\ calls'[1].f = "PDC_scr_open"
          /\ ( /\ calls'[1].w # NULL
               /\ calls'[1].nlines >= 2 /\ calls'[1].ncols >= 2
               /\ FailedBuffers' = {} )
             => /\ proc' = "running" /\ ret' = "WIN"
                /\ SP' # NULL /\ screens'[SP'].alive
                /\ screens'[SP'].lines
                     = LINES' + screens'[SP'].linesrippedoffcnt
                         + screens'[SP'].slklines
                /\ Cardinality({stdscr', curscr', pdc_lastscr'}) = 3
                /\ \A w \in {stdscr', curscr', pdc_lastscr'} :
                     w # NULL /\ heap'[w].used /\ ~heap[w].used]_vars

\* Xinitscr has succeeded with a ripped-off line in a process in which an
\* earlier session, with ripped-off lines of its own, was released by
\* delscreen
C13_Witness ==
  /\ CreateOK /\ screens[SP].alive
  /\ screens[SP].linesrippedoffcnt >= 1
  /\ Cardinality(UsedScreens) = 1
  /\ Cardinality(LostWindows) > screens[SP].linesrippedoffcnt

\* C14: Xinitscr called while a session exists that is not alive (after
\* endwin) performs no transition: it does not call PDC_scr_open, creates
\* no window, and SP, the SCREEN with its ripped-off counts, stdscr, curscr
\* and pdc_lastscr are as before.
C14_CreateOnlyWithoutSession ==
  [][(SP # NULL /\ ~screens[SP].alive /\ op' = "Xinitscr") =>
       /\ calls' = <<>>
       /\ UNCHANGED <<SP, screens, WindowHandles, heap>>]_vars

ClosesTerminal ==
  \E i \in 1..Len(calls) : calls[i].f = "PDC_scr_close"

\* C15: endwin called when no session exists, or when the session is not
\* alive, changes nothing and does not call PDC_scr_close.
C15_SuspendOnlyWhenAlive ==
  [][((SP = NULL \/ ~screens[SP].alive) /\ op' = "endwin") =>
       /\ UNCHANGED globals
       /\ ~ClosesTerminal']_vars

\* C16: isendwin returns true exactly when SP is not NULL and SP->alive is
\* false, false when SP is NULL or the session is alive, and changes no
\* global.  A session is not alive right after endwin and alive right after
\* a successful Xinitscr and after the refresh that resumes it, and while
\* SP stays the same only endwin and that refresh change SP->alive.
C16_IsEndwin ==
  /\ [][op' = "isendwin" =>
          /\ UNCHANGED globals
          /\ ret' = IF SP # NULL /\ ~screens[SP].alive THEN "TRUE"
                    ELSE "FALSE"]_vars
  /\ []((op = "endwin" /\ proc = "running" /\ SP # NULL)
          => ~screens[SP].alive)
  /\ []((CreateOK \/ op = "doupdate") => screens[SP].alive)
  /\ [][(SP # NULL /\ SP' = SP /\ screens'[SP].alive # screens[SP].alive)
          => op' \in {"endwin", "doupdate"}]_vars

\* isendwin has answered true
C16_Witness ==
  /\ op = "isendwin" /\ ret = "TRUE"
  /\ SP # NULL /\ ~screens[SP].alive

DestroySteps ==
  <<"PDC_slk_free", "delwin", "delwin", "delwin", "handles = NULL",
    "alive = false", "PDC_scr_free">>

\* C17: a delscreen step in a process with a session either changes nothing
\* (sp was not SP) or does, in this order: PDC_slk_free, delwin(stdscr),
\* delwin(curscr), delwin(pdc_lastscr), the three handles set to NULL,
\* SP->alive = false, PDC_scr_free; after it SP is NULL, the handles are
\* NULL and the SCREEN and the three windows are released.
C17_DestroyOrder ==
  [][(op' = "delscreen" /\ SP # NULL) =>
       IF calls' = <<>> THEN UNCHANGED globals
       ELSE /\ [i \in 1..Len(calls') |-> calls'[i].f] = DestroySteps
            /\ calls'[2].arg = "stdscr" /\ calls'[2].w = stdscr
            /\ calls'[3].arg = "curscr" /\ calls'[3].w = curscr
            /\ calls'[4].arg = "pdc_lastscr" /\ calls'[4].w = pdc_lastscr
            /\ SP' = NULL /\ ~screens'[SP].used
            /\ stdscr' = NULL /\ curscr' = NULL /\ pdc_lastscr' = NULL
            /\ \A w \in {stdscr, curscr, pdc_lastscr} : ~heap'[w].used]_vars

\* delscreen has released a session that had an slk strip
C17_Witness ==
  /\ op = "delscreen" /\ proc = "running" /\ Len(calls) = 7
  /\ calls[1].f = "PDC_slk_free" /\ calls[1].w # NULL
  /\ calls[2].w # NULL
  /\ SP = NULL /\ stdscr = NULL

IsInitCall(c) == c.f = "init"
Inits == SelectSeq(calls, IsInitCall)

\* Xinitscr went through its loop over linesripped
RipLoopDone ==
  \E i \in 1..Len(calls) : calls[i].f = "newwin" /\ calls[i].arg = "stdscr"

\* C18: an Xinitscr that gets to its loop over the pending ripoffline
\* registrations calls one init function per registration, in registration
\* order, each with a window of its own that exists, has 1 row and
\* SP->cols columns; afterwards no registration is pending and the counts
\* are those of the registrations just processed, so an Xinitscr with
\* nothing pending calls no init function and has both counts 0.
C18_RegistrationsOnce ==
  [][(op' = "Xinitscr" /\ RipLoopDone') =>
       /\ Len(Inits') = Len(linesripped)
       /\ \A k \in 1..Len(linesripped) :
            /\ Inits'[k].arg = (IF linesripped[k] < 0 THEN "bottom" ELSE "top")
            /\ Inits'[k].nlines = 1
            /\ Inits'[k].ncols = screens'[SP'].cols
            /\ Inits'[k].w # NULL
            /\ heap'[Inits'[k].w].used /\ ~heap[Inits'[k].w].used
            /\ \A j \in 1..Len(linesripped) :
                 j # k => Inits'[j].w # Inits'[k].w
       /\ linesripped' = <<>>
       /\ screens'[SP'].linesrippedoffcnt = Len(linesripped)
       /\ screens'[SP'].linesrippedoffontop
            = Cardinality({k \in 1..Len(linesripped) : linesripped[k] > 0})
     ]_vars

Alive == proc = "running" /\ SP # NULL /\ screens[SP].alive

\* resize_term returned ERR because a wresize failed
ResizeBroken ==
  /\ op = "resize_term" /\ ret = "ERR" /\ proc = "running"
  /\ \E i \in 1..Len(calls) : calls[i].f = "wresize" /\ calls[i].w = NULL

\* C19: whenever the session is alive, curscr and pdc_lastscr have
\* SP->lines rows and SP->cols columns and stdscr has LINES rows and COLS
\* columns and begins at row SP->linesrippedoffontop; a resize_term in which
\* a wresize failed leaves the session not alive.
C19_BuffersMatchGeometry ==
  /\ Alive =>
       /\ heap[curscr].used /\ heap[pdc_lastscr].used /\ heap[stdscr].used
       /\ heap[curscr].nlines = screens[SP].lines
       /\ heap[curscr].ncols = screens[SP].cols
       /\ heap[pdc_lastscr].nlines = screens[SP].lines
       /\ heap[pdc_lastscr].ncols = screens[SP].cols
       /\ heap[stdscr].nlines = LINES
       /\ heap[stdscr].ncols = COLS
       /\ heap[stdscr].begy = screens[SP].linesrippedoffontop
  /\ ResizeBroken => ~screens[SP].alive

\* every window that is allocated belongs to the session: stdscr, curscr,
\* pdc_lastscr, the slk strip if there is one, and one window per
\* ripped-off line
OnlySessionWindows ==
  /\ SP # NULL
  /\ Cardinality(UsedWindows)
       = 3 + (IF screens[SP].slk_winptr # NULL THEN 1 ELSE 0)
           + screens[SP].linesrippedoffcnt

DeletesUnallocated ==
  \E i \in 1..Len(calls) : calls[i].f = "delwin" /\ calls[i].nlines = -1

\* C20: when delscreen releases a session whose windows are the only ones
\* allocated, no window is allocated afterwards, and delscreen deletes no
\* window that is not allocated.
C20_AllWindowsDestroyed ==
  [][(op' = "delscreen" /\ calls' # <<>> /\ OnlySessionWindows) =>
       /\ \A w \in WinIds : ~heap'[w].used
       /\ ~DeletesUnallocated']_vars

====
